---- MODULE Spec2Model ----
(***************************************************************************)
(* Model of attack.py: command-line parsing, attack construction and the   *)
(* batch attack loop that counts and saves the adversarial samples whose   *)
(* predicted class changed.                                                *)
(*                                                                         *)
(* Strings are TLA+ strings.  A path is the sequence of its components,    *)
(* an absolute path having "/" as its first component.  A real number is   *)
(* the fraction [num, den] with den > 0.  The classifier and the attack    *)
(* library are external and deterministic: their results are chosen when   *)
(* a tensor is first evaluated and remembered (model_memo, attack_memo).   *)
(***************************************************************************)
EXTENDS Integers, Sequences, FiniteSets, TLC

\* ---------------------------------------------------------------- bounds
MaxImages == 2      \* images in image_folder
MaxBatch == 2       \* --batch-size
NumClasses == 2     \* classes of the classifier (1000 in attack.py)
NumAdv == 2         \* distinct adversarial tensors the attack can return
EpsBelow == 1       \* --eps values tried below 0
EpsAbove == 1       \* --eps values tried above EpsScale

\* ------------------------------------------------------ program constants
EpsScale == 255
eps_iter == 20
nb_iter == 10
DefaultAttack == 20
DefaultEps == 20
DefaultOrd == -1
DefaultBatchSize == 1
mean == <<485, 456, 406>>     \* thousandths
std == <<229, 224, 225>>      \* thousandths

AttackChoices == {"lbfgs", "fgsm", "iter", "m-iter", "pgd", "deepfool", "jsma", "cw"}
OrdChoices == {-1, 1, 2}

\* -------------------------------------------------------------- helpers
Min(a, b) == IF a <= b THEN a ELSE b

Frac(n, d) == [num |-> n, den |-> d]
FracLess(a, b) == a.num * b.den < b.num * a.den

\* Normalize(mean, std) applied to a constant 3x1x1 image of value v
\* (in thousandths): one fraction per channel.
Normalize(v) == [c \in 1..3 |-> Frac(v - mean[c], std[c])]

RECURSIVE FracMin(_, _)
FracMin(t, n) ==
    IF n = 1 THEN t[1]
    ELSE LET m == FracMin(t, n - 1) IN IF FracLess(t[n], m) THEN t[n] ELSE m

RECURSIVE FracMax(_, _)
FracMax(t, n) ==
    IF n = 1 THEN t[1]
    ELSE LET m == FracMax(t, n - 1) IN IF FracLess(m, t[n]) THEN t[n] ELSE m

clip_min == FracMin(Normalize(0), 3)
clip_max == FracMax(Normalize(1000), 3)

\* str.format of an integer
Digits == <<"0", "1", "2", "3", "4", "5", "6", "7", "8", "9">>

RECURSIVE NatStr(_)
NatStr(n) == IF n < 10 THEN Digits[n + 1] ELSE NatStr(n \div 10) \o Digits[(n % 10) + 1]

IntStr(n) == IF n < 0 THEN "-" \o NatStr(-n) ELSE NatStr(n)

\* '{}'.format(args.ord) after line 62: np.inf or the integer given
OrdStr(o) == IF o.inf THEN "inf" ELSE IntStr(o.n)

\* np.argmax over one row: index (from 0) of the first maximum
RECURSIVE ArgMaxFrom(_, _)
ArgMaxFrom(v, n) ==
    IF n = 1 THEN 1
    ELSE LET b == ArgMaxFrom(v, n - 1) IN IF v[n] > v[b] THEN n ELSE b

ArgMax(v) == ArgMaxFrom(v, Len(v)) - 1

\* sequence[mask]: the elements whose mask entry is TRUE, in order
RECURSIVE MaskSelect(_, _)
MaskSelect(s, mask) ==
    IF s = <<>> \/ mask = <<>> THEN <<>>
    ELSE (IF Head(mask) THEN <<Head(s)>> ELSE <<>>) \o MaskSelect(Tail(s), Tail(mask))

\* os.path.join(a, b)
IsAbs(p) == Len(p) > 0 /\ p[1] = "/"
PathJoin(a, b) == IF IsAbs(b) THEN b ELSE a \o b

FormatName_swapped(p, name, s, d) ==
    [p EXCEPT ![Len(p)] = @ \o "_" \o name \o "_src" \o IntStr(d) \o "_dst" \o IntStr(s) \o ".npz"]

\* '{}_{}_src{}_dst{}.npz'.format(p, attack_name, s, d): the text is appended
\* to the last component of p
FormatName(p, name, s, d) ==
    [p EXCEPT ![Len(p)] = @ \o "_" \o name \o "_src" \o IntStr(s) \o "_dst" \o IntStr(d) \o ".npz"]

\* '{:3.2%}'.format(s / p): hundredths of a percent, rounded half to even
PercentFormat(s, p) ==
    LET q == (10000 * s) \div p
        r == (10000 * s) % p
    IN IF 2 * r > p \/ (2 * r = p /\ q % 2 = 1) THEN q + 1 ELSE q

\* ---------------------------------------------------------------- state
VARIABLES
    argv,          \* the command line: each option is <<>> (omitted) or <<value>>
    dataset,       \* ImageDataset(image_folder): sequence of [path, x]
    pc,            \* "start", "main", "loop", "done", "failed"
    error,         \* the exception that ended the process, "" if none
    args,          \* the parsed namespace
    bound,         \* the branch-assigned locals of main() that are bound
    attack_name,
    attack_op,
    attack_params,
    target,        \* the one-hot row of line 95, <<>> while unbound
    n_success,
    n_processed,
    pos,           \* samples the DataLoader iterator has handed out
    postfix,       \* the success rate shown, <<>> before the first batch
    sess_runs,     \* number of sess.run evaluations made
    writes,        \* the np.savez_compressed calls of this process, in order
    fs,            \* the files on disk: set of [path, img]
    model_memo,    \* tensor -> logits row the classifier returns, <<>> if not yet evaluated
    attack_memo,   \* <<image, target class>> -> adversarial tensor, 0 if not yet evaluated
    run,           \* which execution of the program this is
    first_run      \* the writes of the first execution

vars == <<argv, dataset, pc, error, args, bound, attack_name, attack_op, attack_params,
          target, n_success, n_processed, pos, postfix, sess_runs, writes, fs,
          model_memo, attack_memo, run, first_run>>

procvars == <<pc, error, args, bound, attack_name, attack_op, attack_params,
              target, n_success, n_processed, pos, postfix, sess_runs, writes>>

Images == 1..MaxImages
AdvTensors == (MaxImages + 1)..(MaxImages + NumAdv)
Tensors == Images \cup AdvTensors
Classes == 0..(NumClasses - 1)
\* logits rows: one peaked at each class, and the flat row (all classes tie)
Rows == {[c \in 1..NumClasses |-> IF c = k THEN 1 ELSE 0] : k \in 0..NumClasses}

Opt(a, d) == IF a = <<>> THEN d ELSE a[1]
Option(S) == {<<>>} \cup {<<v>> : v \in S}

StrAttack(s) == [kind |-> "str", s |-> s, i |-> 0]
IntAttack(i) == [kind |-> "int", s |-> "", i |-> i]
IsAttack(a, s) == a.kind = "str" /\ a.s = s

EmptyMap == [k \in {} |-> 0]
NoArgs == [attack |-> StrAttack(""), eps |-> 0, ord |-> [inf |-> FALSE, n |-> 0],
           batch_size |-> 0, image_folder |-> <<>>, out_folder |-> <<>>]

\* ImageDataset(image_folder, return_paths=True): n files found in the folder
ImageFile(i) == "img" \o IntStr(i) \o ".jpg"
DatasetOf(folder, n) == [i \in 1..n |-> [path |-> folder \o <<ImageFile(i)>>, x |-> i]]

ProcInit ==
    /\ pc = "start"
    /\ error = ""
    /\ args = NoArgs
    /\ bound = {}
    /\ attack_name = ""
    /\ attack_op = ""
    /\ attack_params = EmptyMap
    /\ target = <<>>
    /\ n_success = 0
    /\ n_processed = 0
    /\ pos = 0
    /\ postfix = <<>>
    /\ sess_runs = 0
    /\ writes = <<>>

InitWith(CmdLines, Sizes) ==
    /\ argv \in CmdLines
    /\ \E n \in Sizes : dataset = DatasetOf(Opt(argv.image_folder, <<>>), n)
    /\ ProcInit
    /\ fs = {}
    /\ model_memo = [t \in Tensors |-> <<>>]
    /\ attack_memo = [k \in Images \X Classes |-> 0]
    /\ run = 1
    /\ first_run = <<>>

\* ------------------------------------------------------------ __main__
\* parser.parse_args(): choices are checked for the values given on the
\* command line only; an omitted option takes its default unchecked.
ParseRejects(av) ==
    \/ av.attack # <<>> /\ av.attack[1] \notin AttackChoices
    \/ av.ord # <<>> /\ av.ord[1] \notin OrdChoices

ParsedAttack(a) == IF a = <<>> THEN IntAttack(DefaultAttack) ELSE StrAttack(a[1])

ParseArgs ==
    /\ pc = "start"
    /\ IF ParseRejects(argv)
       THEN /\ pc' = "failed"
            /\ error' = "SystemExit"
            /\ args' = args
       ELSE /\ pc' = "main"
            /\ error' = error
            /\ args' = [attack |-> ParsedAttack(argv.attack),
                        eps |-> Opt(argv.eps, DefaultEps),
                        ord |-> [inf |-> FALSE, n |-> Opt(argv.ord, DefaultOrd)],
                        batch_size |-> Opt(argv.batch_size, DefaultBatchSize),
                        image_folder |-> argv.image_folder[1],
                        out_folder |-> argv.out_folder[1]]
    /\ UNCHANGED <<argv, dataset, bound, attack_name, attack_op, attack_params, target,
                   n_success, n_processed, pos, postfix, sess_runs, writes, fs,
                   model_memo, attack_memo, run, first_run>>

\* ---------------------------------------------------------------- main
Merge_first(a, b) == a

\* {**a, **b}
Merge(a, b) == [k \in DOMAIN a \cup DOMAIN b |-> IF k \in DOMAIN b THEN b[k] ELSE a[k]]

eps_of_raw(a) == Frac(a.eps, 1)
eps_of(a) == Frac(a.eps, EpsScale)
ord_of(a) == IF a.ord.n < 0 THEN [inf |-> TRUE, n |-> 0] ELSE a.ord
grad_params(a) == [eps |-> eps_of(a), ord |-> ord_of(a)]
common_params == [clip_min |-> clip_min, clip_max |-> clip_max]
iter_params == [eps_iter |-> Frac(eps_iter, EpsScale), nb_iter |-> nb_iter]

GradSuffix(a) == "_L" \o OrdStr(ord_of(a)) \o "_eps" \o IntStr(a.eps)
IterSuffix(a) == GradSuffix(a) \o "_epsi" \o IntStr(eps_iter) \o "_i" \o IntStr(nb_iter)

\* the suffix the if/elif chain of lines 67-98 leaves in attack_name
AttackSuffix(a) ==
    IF IsAttack(a.attack, "fgsm") THEN GradSuffix(a)
    ELSE IF IsAttack(a.attack, "iter") \/ IsAttack(a.attack, "m-iter") \/ IsAttack(a.attack, "pgd")
         THEN IterSuffix(a)
         ELSE ""

\* the attack class instantiated, "" when no branch is taken
AttackOp(a) ==
    IF IsAttack(a.attack, "fgsm") THEN "FastGradientMethod"
    ELSE IF IsAttack(a.attack, "iter") THEN "BasicIterativeMethod"
    ELSE IF IsAttack(a.attack, "m-iter") THEN "MomentumIterativeMethod"
    ELSE IF IsAttack(a.attack, "pgd") THEN "MadryEtAl"
    ELSE IF IsAttack(a.attack, "jsma") THEN "SaliencyMapMethod"
    ELSE IF IsAttack(a.attack, "deepfool") THEN "DeepFool"
    ELSE IF IsAttack(a.attack, "cw") THEN "CarliniWagnerL2"
    ELSE IF IsAttack(a.attack, "lbfgs") THEN "LBFGS"
    ELSE ""

\* tf.placeholder(tf.float32, target.shape)
Placeholder(t) == [placeholder |-> "y", shape |-> <<1, Len(t)>>]

\* the attack_params of the branch taken; t is the one-hot row of lbfgs
AttackParams(a, t) ==
    IF IsAttack(a.attack, "fgsm") THEN Merge(common_params, grad_params(a))
    ELSE IF IsAttack(a.attack, "iter") \/ IsAttack(a.attack, "m-iter") \/ IsAttack(a.attack, "pgd")
         THEN Merge(Merge(common_params, grad_params(a)), iter_params)
    ELSE IF IsAttack(a.attack, "jsma")
         THEN Merge([theta |-> eps_of(a), symbolic_impl |-> FALSE], common_params)
    ELSE IF IsAttack(a.attack, "deepfool") \/ IsAttack(a.attack, "cw") THEN common_params
    ELSE IF IsAttack(a.attack, "lbfgs") THEN Merge([y_target |-> Placeholder(t)], common_params)
    ELSE EmptyMap

\* target = np.zeros((1, 1000)); target[0, k] = 1
OneHot(k) == [c \in 1..NumClasses |-> IF c = k + 1 THEN 1 ELSE 0]

\* the locals the branch taken binds
BranchLocals(a) ==
    IF IsAttack(a.attack, "lbfgs") THEN {"attack_op", "attack_params", "target", "y"}
    ELSE IF AttackOp(a) # "" THEN {"attack_op", "attack_params"}
    ELSE {}

\* lines 33-106.  When no branch is taken, args.attack is the integer
\* default and line 100 (args.attack + attack_name) raises TypeError.
Construct ==
    /\ pc = "main"
    /\ args' = [args EXCEPT !.ord = ord_of(args)]
    /\ bound' = BranchLocals(args)
    /\ attack_op' = AttackOp(args)
    /\ \E k \in Classes :      \* np.random.randint
          /\ target' = IF IsAttack(args.attack, "lbfgs") THEN OneHot(k) ELSE <<>>
          /\ attack_params' = AttackParams(args, OneHot(k))
    /\ IF args.attack.kind = "str"
       THEN /\ attack_name' = args.attack.s \o AttackSuffix(args)
            /\ pc' = "loop"
            /\ error' = error
       ELSE /\ attack_name' = AttackSuffix(args)
            /\ pc' = "failed"
            /\ error' = "TypeError"
    /\ UNCHANGED <<argv, dataset, n_success, n_processed, pos, postfix, sess_runs, writes,
                   fs, model_memo, attack_memo, run, first_run>>

\* ------------------------------------------------------- the batch loop
\* the batch the DataLoader hands out next (shuffle=False, drop_last=False)
BatchLen == Min(args.batch_size, Len(dataset) - pos)
BatchPaths == [j \in 1..BatchLen |-> dataset[pos + j].path]
BatchX == [j \in 1..BatchLen |-> dataset[pos + j].x]

\* the class the fed target row selects
TargetClass == ArgMax(target)

\* np.savez_compressed(path, img=a) for each write of ws in turn
RECURSIVE SaveAll(_, _)
SaveAll(f, ws) ==
    IF ws = <<>> THEN f
    ELSE SaveAll({e \in f : e.path # Head(ws).path}
                     \cup {[path |-> Head(ws).path, img |-> Head(ws).img]},
                 Tail(ws))

success_of_same(src, dst) == [j \in DOMAIN src |-> src[j] = dst[j]]
success_of(src, dst) == [j \in DOMAIN src |-> src[j] # dst[j]]
success_paths(paths, success) == MaskSelect(paths, success)
success_adv_x(adv_x, success) == MaskSelect(adv_x, success)
success_src(src, success) == MaskSelect(src, success)
success_dst_unfiltered(dst, success) == dst
success_dst(dst, success) == MaskSelect(dst, success)

\* zip(...) of line 130 and the body of the saving loop
SavedOf(k, sp, sa, ss, sd) ==
    [j \in 1..Min(Min(Len(sp), Len(sa)), Min(Len(ss), Len(sd))) |->
        LET name == FormatName(sp[j], attack_name, ss[j], sd[j])
        IN [batch |-> k, p |-> sp[j], img |-> sa[j], src |-> ss[j], dst |-> sd[j],
            name |-> name, path |-> PathJoin(args.out_folder, name)]]

\* One iteration of the loop, lines 111-133, with sess.run returning
\* z, adv_x, adv_z.
BatchStep(z, adv_x, adv_z) ==
    LET src == [j \in 1..BatchLen |-> ArgMax(z[j])]
        dst == [j \in 1..BatchLen |-> ArgMax(adv_z[j])]
        success == success_of(src, dst)
        sa == success_adv_x(adv_x, success)
        saved == SavedOf(sess_runs + 1, success_paths(BatchPaths, success), sa,
                         success_src(src, success), success_dst(dst, success))
    IN /\ n_success' = n_success + Len(sa)
       /\ n_processed' = n_processed + BatchLen
       /\ postfix' = <<PercentFormat(n_success', n_processed')>>
       /\ writes' = writes \o saved
       /\ fs' = SaveAll(fs, saved)

Batch ==
    /\ pc = "loop"
    /\ pos < Len(dataset)
    /\ {"y", "target"} \subseteq bound
    /\ \E adv_x \in [1..BatchLen -> AdvTensors] :
          /\ \A j \in 1..BatchLen : attack_memo[<<BatchX[j], TargetClass>>] \in {0, adv_x[j]}
          /\ LET used == {BatchX[j] : j \in 1..BatchLen} \cup {adv_x[j] : j \in 1..BatchLen}
             IN \E rows \in [used -> Rows] :
                   /\ \A t \in used : model_memo[t] \in {<<>>, rows[t]}
                   /\ BatchStep([j \in 1..BatchLen |-> rows[BatchX[j]]], adv_x,
                                [j \in 1..BatchLen |-> rows[adv_x[j]]])
                   /\ model_memo' = [t \in Tensors |-> IF t \in used THEN rows[t] ELSE model_memo[t]]
                   /\ attack_memo' =
                        [k \in DOMAIN attack_memo |->
                            IF \E j \in 1..BatchLen : k = <<BatchX[j], TargetClass>>
                            THEN adv_x[CHOOSE j \in 1..BatchLen : k = <<BatchX[j], TargetClass>>]
                            ELSE attack_memo[k]]
    /\ pos' = pos + BatchLen
    /\ sess_runs' = sess_runs + 1
    /\ UNCHANGED <<argv, dataset, pc, error, args, bound, attack_name, attack_op,
                   attack_params, target, run, first_run>>

\* line 115 names y and target, which only the lbfgs branch binds
BatchUnbound ==
    /\ pc = "loop"
    /\ pos < Len(dataset)
    /\ ~({"y", "target"} \subseteq bound)
    /\ pc' = "failed"
    /\ error' = "UnboundLocalError"
    /\ pos' = pos + BatchLen
    /\ UNCHANGED <<argv, dataset, args, bound, attack_name, attack_op, attack_params, target,
                   n_success, n_processed, postfix, sess_runs, writes, fs,
                   model_memo, attack_memo, run, first_run>>

BatchFail_counted ==
    /\ pc = "loop"
    /\ pos < Len(dataset)
    /\ {"y", "target"} \subseteq bound
    /\ pc' = "failed"
    /\ error' = "RuntimeError"
    /\ pos' = pos + BatchLen
    /\ n_processed' = n_processed + BatchLen
    /\ UNCHANGED <<argv, dataset, args, bound, attack_name, attack_op, attack_params, target,
                   n_success, postfix, sess_runs, writes, fs,
                   model_memo, attack_memo, run, first_run>>

\* sess.run raises: nothing catches it
BatchFail ==
    /\ pc = "loop"
    /\ pos < Len(dataset)
    /\ {"y", "target"} \subseteq bound
    /\ pc' = "failed"
    /\ error' = "RuntimeError"
    /\ pos' = pos + BatchLen
    /\ UNCHANGED <<argv, dataset, args, bound, attack_name, attack_op, attack_params, target,
                   n_success, n_processed, postfix, sess_runs, writes, fs,
                   model_memo, attack_memo, run, first_run>>

\* the DataLoader is exhausted and main() returns
Finish ==
    /\ pc = "loop"
    /\ pos = Len(dataset)
    /\ pc' = "done"
    /\ UNCHANGED <<argv, dataset, error, args, bound, attack_name, attack_op, attack_params,
                   target, n_success, n_processed, pos, postfix, sess_runs, writes, fs,
                   model_memo, attack_memo, run, first_run>>

\* the same command line is run a second time on the same folders
Rerun ==
    /\ pc \in {"done", "failed"}
    /\ run = 1
    /\ run' = 2
    /\ first_run' = <<[pc |-> pc, error |-> error, writes |-> writes]>>
    /\ pc' = "start"
    /\ error' = ""
    /\ args' = NoArgs
    /\ bound' = {}
    /\ attack_name' = ""
    /\ attack_op' = ""
    /\ attack_params' = EmptyMap
    /\ target' = <<>>
    /\ n_success' = 0
    /\ n_processed' = 0
    /\ pos' = 0
    /\ postfix' = <<>>
    /\ sess_runs' = 0
    /\ writes' = <<>>
    /\ UNCHANGED <<argv, dataset, fs, model_memo, attack_memo>>

\* ------------------------------------------------------ specifications
ImageFolders == {<<"imgs">>, <<"/", "data">>}
OutFolders == {<<"out">>}

AllLines(EpsValues, OrdValues, BatchSizes, Folders) ==
    [attack : Option(AttackChoices \cup {"bogus"}),
     eps : Option(EpsValues),
     ord : Option(OrdValues),
     batch_size : Option(BatchSizes),
     image_folder : {<<f>> : f \in Folders},
     out_folder : {<<f>> : f \in OutFolders}]

\* command lines for the whole pipeline; lbfgs, the one attack that takes
\* eps and ord nowhere, is run with both omitted, on the relative folder in
\* batches of MaxBatch and on the absolute folder one image at a time
CmdLines ==
    {c \in AllLines({0, EpsScale}, OrdChoices \cup {0}, {MaxBatch}, ImageFolders) :
        c.attack = <<"lbfgs">> =>
            /\ c.eps = <<>>
            /\ c.ord = <<>>
            /\ (IsAbs(c.image_folder[1]) <=> c.batch_size = <<>>)}

\* command lines for running the program twice
TwiceLines == AllLines({}, {}, {MaxBatch}, {<<"imgs">>})

\* command lines for parsing and attack construction
ArgLines == AllLines((0 - EpsBelow)..(EpsScale + EpsAbove), OrdChoices \cup {0}, {MaxBatch}, {<<"imgs">>})

Init == InitWith(CmdLines, 0..MaxImages)
Next == ParseArgs \/ Construct \/ Batch \/ BatchUnbound \/ BatchFail \/ Finish
Spec == Init /\ [][Next]_vars

InitTwice == InitWith(TwiceLines, 0..MaxImages)
NextTwice == ParseArgs \/ Construct \/ Batch \/ BatchUnbound \/ BatchFail \/ Finish \/ Rerun
SpecTwice == InitTwice /\ [][NextTwice]_vars

InitArgs == InitWith(ArgLines, {0})
NextArgs == ParseArgs \/ Construct
SpecArgs == InitArgs /\ [][NextArgs]_vars

\* ------------------------------------------------------------ properties
ValidAttack == args.attack.kind = "str" /\ args.attack.s \in AttackChoices
Constructed == pc \in {"loop", "done"} \/ (pc = "failed" /\ error \in {"UnboundLocalError", "RuntimeError"})
NumBatches == (Len(dataset) + args.batch_size - 1) \div args.batch_size

\* what the external calls returned for sample i of the dataset
SampleAdv(i) == attack_memo[<<dataset[i].x, TargetClass>>]
SampleSrc(i) == ArgMax(model_memo[dataset[i].x])
SampleDst(i) == ArgMax(model_memo[SampleAdv(i)])
Changed(i) == SampleSrc(i) # SampleDst(i)
ChangedSamples == {i \in 1..n_processed : Changed(i)}
BatchOf(i) == ((i - 1) \div args.batch_size) + 1

\* C1: for each of the eight attack names and a non-empty dataset, unless an
\* external call fails, every batch is evaluated once and the run ends with
\* n_processed equal to the number of images.
C1_EveryBatchEvaluated ==
    (pc \in {"done", "failed"} /\ ValidAttack /\ Len(dataset) > 0 /\ error # "RuntimeError")
        => /\ pc = "done"
           /\ n_processed = Len(dataset)
           /\ sess_runs = NumBatches

\* C2: after every batch n_success is the number of fed samples whose argmax
\* changed, n_processed is the number of samples fed, 0 <= n_success <=
\* n_processed, and the rate shown is n_success / n_processed (as a
\* percentage with two decimals).
C2_SuccessCount ==
    (Constructed /\ sess_runs > 0)
        => /\ n_processed = Min(sess_runs * args.batch_size, Len(dataset))
           /\ (pc # "failed" => n_processed = pos)
           /\ n_success = Cardinality(ChangedSamples)
           /\ 0 <= n_success /\ n_success <= n_processed
           /\ Len(postfix) = 1
           /\ LET diff == postfix[1] * n_processed - 10000 * n_success
              IN 2 * diff <= n_processed /\ 2 * (0 - diff) <= n_processed

C2_Witness ==
    /\ pc = "loop"
    /\ sess_runs >= 2
    /\ 0 < n_success
    /\ n_success < n_processed

\* C3: main() is entered only with args.attack one of the eight names.
C3_OnlyEnumeratedAttacks == (pc = "main") => ValidAttack

\* C4: construction yields a non-empty parameter mapping whose keys are
\* those of the table, symbolic_impl false for jsma and a one-hot target for
\* lbfgs.
TableKeys(a) ==
    CASE a = "fgsm" -> {"eps", "ord", "clip_min", "clip_max"}
      [] a \in {"iter", "m-iter", "pgd"} -> {"eps", "ord", "clip_min", "clip_max", "eps_iter", "nb_iter"}
      [] a = "jsma" -> {"theta", "symbolic_impl", "clip_min", "clip_max"}
      [] a \in {"deepfool", "cw"} -> {"clip_min", "clip_max"}
      [] a = "lbfgs" -> {"y_target", "clip_min", "clip_max"}

C4_ParameterTable ==
    (pc = "loop")
        => /\ ValidAttack
           /\ DOMAIN attack_params = TableKeys(args.attack.s)
           /\ DOMAIN attack_params # {}
           /\ FracLess(attack_params.clip_min, attack_params.clip_max)
           /\ (args.attack.s = "jsma" => attack_params.symbolic_impl = FALSE)
           /\ (args.attack.s = "lbfgs" =>
                 /\ Len(target) = NumClasses
                 /\ \E k \in 1..NumClasses :
                       \A c \in 1..NumClasses : target[c] = (IF c = k THEN 1 ELSE 0)
                 /\ attack_params.y_target.shape = <<1, NumClasses>>)
           /\ (args.attack.s # "lbfgs" => target = <<>>)

C4_Witness ==
    /\ pc = "loop"
    /\ args.attack.s = "lbfgs"
    /\ target[NumClasses] = 1

\* C5: a written file is named {original_path}_{attack}{suffix}_src{src}_dst{dst}.npz
\* with the suffix of the table, eps the integer given, ord printed as inf, 1
\* or 2, and src # dst; fgsm with eps 20 and the default norm gives
\* ..._fgsm_Linf_eps20_src.._dst...npz.
OrdText == IF Opt(argv.ord, -1) = -1 THEN "inf" ELSE ToString(argv.ord[1])
EpsText == ToString(Opt(argv.eps, 20))
TableSuffix ==
    CASE argv.attack = <<"fgsm">> -> "_L" \o OrdText \o "_eps" \o EpsText
      [] argv.attack \in {<<"iter">>, <<"m-iter">>, <<"pgd">>} ->
            "_L" \o OrdText \o "_eps" \o EpsText \o "_epsi20_i10"
      [] OTHER -> ""

C5_FileNames ==
    Constructed
        => /\ attack_name = argv.attack[1] \o TableSuffix
           /\ (argv.attack = <<"fgsm">> /\ Opt(argv.eps, 20) = 20 /\ Opt(argv.ord, -1) = -1
                 => attack_name = "fgsm_Linf_eps20")
           /\ \A j \in 1..Len(writes) :
                 LET w == writes[j]
                 IN /\ w.src # w.dst
                    /\ \E i \in 1..Len(dataset) : w.p = dataset[i].path
                    /\ Len(w.name) = Len(w.p)
                    /\ \A c \in 1..(Len(w.p) - 1) : w.name[c] = w.p[c]
                    /\ w.name[Len(w.p)] =
                          w.p[Len(w.p)] \o "_" \o argv.attack[1] \o TableSuffix
                              \o "_src" \o ToString(w.src) \o "_dst" \o ToString(w.dst) \o ".npz"

C5_Witness ==
    /\ pc = "done"
    /\ Len(writes) >= 2
    /\ writes[1].src = 1
    /\ writes[1].dst = 0

\* C6: every file written lies under out_folder.
Under(d, p) ==
    /\ Len(p) > Len(d)
    /\ SubSeq(p, 1, Len(d)) = d
    /\ \A c \in 1..Len(p) : p[c] # ".."

C6_WritesUnderOutFolder ==
    \A f \in fs : Under(argv.out_folder[1], f.path)

\* C7: a second run of the same command line on the same folder, with a
\* deterministic model and attack library, makes the same writes in the same
\* order: the same file names with the same arrays.
C7_SecondRunIdentical ==
    (run = 2 /\ pc = "done" /\ first_run[1].pc = "done")
        => writes = first_run[1].writes

\* C8: when the evaluation of a batch fails the run stops there: that step
\* advances neither n_success nor n_processed, evaluates and writes nothing,
\* leaves the files on disk as they were, and no step follows it.
C8_FailureIsFatal ==
    [][/\ (pc = "loop" /\ pc' = "failed")
            => UNCHANGED <<n_success, n_processed, postfix, sess_runs, writes, fs>>
       /\ (pc = "failed") => UNCHANGED <<pc, n_success, n_processed, sess_runs, writes, fs>>]_vars

C8_Witness ==
    /\ pc = "failed"
    /\ error = "RuntimeError"
    /\ sess_runs >= 1
    /\ writes # <<>>
    /\ n_processed < Len(dataset)

\* C9: for an epsilon given in 0..255 the budget handed to the attack (eps
\* for fgsm, iter, m-iter and pgd, theta for jsma) is eps/255, within [0, 1].
IsBudget(v, e) ==
    /\ v.den > 0
    /\ v.num * EpsScale = e * v.den
    /\ 0 <= v.num
    /\ v.num <= v.den

C9_NormalizedBudget ==
    (pc = "loop" /\ Opt(argv.eps, DefaultEps) \in 0..EpsScale)
        => /\ (args.attack.s \in {"fgsm", "iter", "m-iter", "pgd"}
                 => IsBudget(attack_params.eps, Opt(argv.eps, DefaultEps)))
           /\ (args.attack.s = "jsma"
                 => IsBudget(attack_params.theta, Opt(argv.eps, DefaultEps)))

C9_Witness ==
    /\ pc = "loop"
    /\ args.attack.s = "jsma"
    /\ argv.eps = <<EpsScale>>

====
